---- MODULE Spec2Model ----
(***************************************************************************)
(* Monte Carlo Tree Search decision engine of Slay-the-Saturn               *)
(* (ggpa/mcts_bot.py, g3_files/agents/mcts_bot.py).                         *)
(*                                                                         *)
(* Python objects live in two heaps: `nodes' (TreeNode objects, addressed  *)
(* by their allocation index) and `obj' (BattleState objects, addressed by *)
(* LiveRef(d) and CopyRef(d)).  Variables indexed by a decision d are the  *)
(* locals of one invocation of MCTSAgent.choose_card; variables indexed by *)
(* an agent a are the attributes of one MCTSAgent object.                  *)
(*                                                                         *)
(* Scores are exact rationals kept as integers in units of 1 / Unit(state): *)
(* 1 / (10 * player.max_health * total_enemy_hp) of the snapshot.  Reward   *)
(* weights are kept in tenths.                                             *)
(***************************************************************************)
EXTENDS Integers, Sequences, FiniteSets, TLC

\* ---------------------------------------------------------------- bounds
MaxIter == 5

MaxSkewIter == 21

ConcIter == 2

MaxSeed == 2

DetIter == 3

EvalMaxHp == 4

EvalMaxEhp == 5

\* ------------------------------------------------------- small utilities
None == 0

Range(s) == {s[i] : i \in 1..Len(s)}

RemoveAt(s, i) == SubSeq(s, 1, i - 1) \o SubSeq(s, i + 1, Len(s))

RECURSIVE SumSeq(_)
SumSeq(s) == IF s = <<>> THEN 0 ELSE s[1] + SumSeq(Tail(s))

Min(a, b) == IF a < b THEN a ELSE b

Max(a, b) == IF a < b THEN b ELSE a

\* All reorderings of a sequence (the orders a shuffle can produce).
Shuffles(s) ==
    {p \in [1..Len(s) -> Range(s)] :
        \A x \in Range(s) :
            Cardinality({i \in 1..Len(s) : p[i] = x})
              = Cardinality({i \in 1..Len(s) : s[i] = x})}

\* ------------------------------------------- actions (action/action.py)
EndAgentTurn == [type |-> "EndAgentTurn", card_index |-> -1]

PlayCard(i) == [type |-> "PlayCard", card_index |-> i]

\* Action key: identifies the choice made at a tree edge (hand index for a
\* play, a distinct key for ending the turn).
key(action) ==
    IF action.type = "EndAgentTurn" THEN 0 ELSE action.card_index + 1

\* --------------------------------- the Simulation Collaborator (battle)
MaxMana == 2

DrawCount == 1

EnemyAttack == 1

CardCost(card) == IF card = "Bash" THEN 2 ELSE 1

CardDamage(card) == IF card = "Bash" THEN 2 ELSE 1

Snapshot(hp, maxhp, ehp, emaxhp, mana, hand, pile) ==
    [player    |-> [health |-> hp, max_health |-> maxhp],
     enemies   |-> <<[health |-> ehp, max_health |-> emaxhp]>>,
     mana      |-> mana,
     hand      |-> hand,
     draw_pile |-> pile]

ended(state) ==
    \/ state.player.health <= 0
    \/ \A i \in 1..Len(state.enemies) : state.enemies[i].health <= 0

get_end_result(state) ==
    IF state.player.health <= 0 THEN -1
    ELSE IF \A i \in 1..Len(state.enemies) : state.enemies[i].health <= 0
         THEN 1 ELSE 0

is_playable(state, i) == CardCost(state.hand[i + 1]) <= state.mana

\* Index of the first enemy still standing (the target of a played card).
FirstAlive(state) ==
    CHOOSE i \in 1..Len(state.enemies) :
        /\ state.enemies[i].health > 0
        /\ \A j \in 1..(i - 1) : state.enemies[j].health <= 0

\* BattleState.step(action): one atomic advance of the simulation.
StateStep(state, action) ==
    IF action.type = "PlayCard"
    THEN LET card == state.hand[action.card_index + 1]
             t    == FirstAlive(state)
         IN [state EXCEPT
               !.mana = @ - CardCost(card),
               !.hand = RemoveAt(@, action.card_index + 1),
               !.enemies[t].health = Max(0, @ - CardDamage(card))]
    ELSE LET hp == Max(0, state.player.health - EnemyAttack)
             n  == Min(DrawCount, Len(state.draw_pile))
         IN IF hp = 0
            THEN [state EXCEPT !.player.health = 0]
            ELSE [state EXCEPT
                    !.player.health = hp,
                    !.mana = MaxMana,
                    !.hand = SubSeq(state.draw_pile, 1, n),
                    !.draw_pile = SubSeq(@, n + 1, Len(@))]

\* BattleState.copy_undeterministic(): the values a fresh copy can hold.
\* The visible state is kept, the hidden order of the draw pile is redrawn.
copy_undeterministic(state) ==
    {[state EXCEPT !.draw_pile = p] : p \in Shuffles(state.draw_pile)}

\* A play is legal when its index is inside the hand and the card is
\* affordable; ending the turn is always legal.
Legal(state, action) ==
    \/ action.type = "EndAgentTurn"
    \/ /\ action.type = "PlayCard"
       /\ action.card_index \in 0..(Len(state.hand) - 1)
       /\ is_playable(state, action.card_index)

\* ------------------------------------------------------------ TreeNode
NoAction == [type |-> "None", card_index |-> -1]

TreeNode(action, parent) ==
    [action             |-> action,
     parent             |-> parent,
     children           |-> <<>>,
     visits             |-> 0,
     total_score        |-> 0,
     unexplored_actions |-> <<>>]

\* children is a dict: a sequence of entries in insertion order.
Keys(children) == {children[j].key : j \in 1..Len(children)}

Lookup(children, k) ==
    children[CHOOSE j \in 1..Len(children) : children[j].key = k].node

\* children[k] = n : a new key is appended, an existing key keeps its place.
DictSet(children, k, n) ==
    IF k \in Keys(children)
    THEN [j \in 1..Len(children) |->
            IF children[j].key = k THEN [key |-> k, node |-> n]
            ELSE children[j]]
    ELSE Append(children, [key |-> k, node |-> n])

\* Variant: every hand slot yields a play action, affordable or not.
RECURSIVE PlayActions_all(_, _)
PlayActions_all(state, i) ==
    IF i >= Len(state.hand) THEN <<>>
    ELSE <<PlayCard(i)>> \o PlayActions_all(state, i + 1)

\* _get_actions, lines 265-267: the loop over the hand from index i on.
RECURSIVE PlayActions(_, _)
PlayActions(state, i) ==
    IF i >= Len(state.hand) THEN <<>>
    ELSE (IF is_playable(state, i) THEN <<PlayCard(i)>> ELSE <<>>)
           \o PlayActions(state, i + 1)

\* Variant: the end-turn action is not appended.
get_actions_no_end(state) == PlayActions(state, 0)

get_actions(state) == Append(PlayActions(state, 0), EndAgentTurn)

\* The actions _select_child_action can return at node n of tree ns.  A child
\* with no visit has unbounded priority and the draw is among those; otherwise
\* every child has a softmax weight exp(ucb - max_ucb) > 0, so random.choices
\* can return any of them.
select_child_action(ns, n) ==
    LET ch        == ns[n].children
        unvisited == {j \in 1..Len(ch) : ns[ch[j].node].visits = 0}
        drawn     == IF unvisited # {} THEN unvisited ELSE 1..Len(ch)
    IN {ns[ch[j].node].action : j \in drawn}

total_enemy_hp(state) ==
    SumSeq([j \in 1..Len(state.enemies) |-> state.enemies[j].max_health])

damage_dealt(state) ==
    SumSeq([j \in 1..Len(state.enemies) |->
              state.enemies[j].max_health - state.enemies[j].health])

\* The unit scores of the snapshot are counted in: 1 / Unit(state).  The total
\* enemy health only enters when it is positive (a zero total is either
\* guarded, line 345, or never divided by).
Unit(state) ==
    10 * state.player.max_health
       * (IF total_enemy_hp(state) > 0 THEN total_enemy_hp(state) ELSE 1)

\* _evaluate_state divides by zero: by player.max_health in the win branch
\* (line 333) and after the loop (line 348), by total_enemy_hp in the loss
\* branch (line 340), which has no guard.
evaluate_raises(state) ==
    IF ended(state)
    THEN IF get_end_result(state) = 1
         THEN state.player.max_health = 0
         ELSE total_enemy_hp(state) = 0
    ELSE state.player.max_health = 0

\* Variant: a win scores the base reward only, without the health bonus.
evaluate_state_no_bonus(state) ==
    LET teh == IF total_enemy_hp(state) > 0 THEN total_enemy_hp(state) ELSE 1
        mh  == state.player.max_health
    IN IF ended(state)
       THEN IF get_end_result(state) = 1
            THEN 8 * mh * teh
            ELSE 3 * damage_dealt(state) * mh
       ELSE (IF total_enemy_hp(state) > 0 THEN 7 * damage_dealt(state) * mh ELSE 0)
              + 3 * state.player.health * teh

\* Variant: the ongoing score weighs the damage dealt, not its ratio to the
\* total enemy health.
evaluate_state_raw_damage(state) ==
    LET teh == IF total_enemy_hp(state) > 0 THEN total_enemy_hp(state) ELSE 1
        mh  == state.player.max_health
    IN IF ended(state)
       THEN IF get_end_result(state) = 1
            THEN 8 * mh * teh + 2 * state.player.health * teh
            ELSE 3 * damage_dealt(state) * mh
       ELSE 7 * damage_dealt(state) * mh * teh + 3 * state.player.health * teh

\* _evaluate_state (ggpa), lines 329-350, in units of 1 / Unit(state), for a
\* snapshot on which it does not raise.
evaluate_state(state) ==
    LET teh == IF total_enemy_hp(state) > 0 THEN total_enemy_hp(state) ELSE 1
        mh  == state.player.max_health
    IN IF ended(state)
       THEN IF get_end_result(state) = 1
            THEN 8 * mh * teh + 2 * state.player.health * teh
            ELSE 3 * damage_dealt(state) * mh
       ELSE (IF total_enemy_hp(state) > 0 THEN 7 * damage_dealt(state) * mh ELSE 0)
              + 3 * state.player.health * teh

\* The reward weights MCTSAgent.__init__ (g3) defaults to, in tenths.
DefaultWeights ==
    [win_base_reward       |-> 8,
     win_health_bonus      |-> 2,
     loss_damage_weight    |-> 3,
     ongoing_damage_weight |-> 7,
     ongoing_health_weight |-> 3]

\* Variant: a win scores the health bonus only, the base reward is dropped.
evaluate_state_g3_no_base(state, w) ==
    LET teh == IF total_enemy_hp(state) > 0 THEN total_enemy_hp(state) ELSE 1
        mh  == state.player.max_health
    IN IF ended(state)
       THEN IF get_end_result(state) = 1
            THEN w.win_health_bonus * state.player.health * teh
            ELSE w.loss_damage_weight * damage_dealt(state) * mh
       ELSE (IF total_enemy_hp(state) > 0
             THEN w.ongoing_damage_weight * damage_dealt(state) * mh ELSE 0)
              + w.ongoing_health_weight * state.player.health * teh

\* Variant: a loss weighs the damage dealt, not its ratio to the total enemy
\* health.
evaluate_state_g3_raw_loss(state, w) ==
    LET teh == IF total_enemy_hp(state) > 0 THEN total_enemy_hp(state) ELSE 1
        mh  == state.player.max_health
    IN IF ended(state)
       THEN IF get_end_result(state) = 1
            THEN w.win_base_reward * mh * teh
                   + w.win_health_bonus * state.player.health * teh
            ELSE w.loss_damage_weight * damage_dealt(state) * mh * teh
       ELSE (IF total_enemy_hp(state) > 0
             THEN w.ongoing_damage_weight * damage_dealt(state) * mh ELSE 0)
              + w.ongoing_health_weight * state.player.health * teh

\* _evaluate_state (g3), lines 233-250, with the agent's weights w, in units
\* of 1 / Unit(state), for a snapshot on which it does not raise.
evaluate_state_g3(state, w) ==
    LET teh == IF total_enemy_hp(state) > 0 THEN total_enemy_hp(state) ELSE 1
        mh  == state.player.max_health
    IN IF ended(state)
       THEN IF get_end_result(state) = 1
            THEN w.win_base_reward * mh * teh
                   + w.win_health_bonus * state.player.health * teh
            ELSE w.loss_damage_weight * damage_dealt(state) * mh
       ELSE (IF total_enemy_hp(state) > 0
             THEN w.ongoing_damage_weight * damage_dealt(state) * mh ELSE 0)
              + w.ongoing_health_weight * state.player.health * teh

\* Variant: the walk starts at the parent, the starting node is not counted.
RECURSIVE backpropagate_ancestors(_, _, _)
backpropagate_ancestors(ns, n, s) ==
    IF ns[n].parent = None THEN ns
    ELSE backpropagate_ancestors(
             [ns EXCEPT ![ns[n].parent].visits = @ + 1,
                        ![ns[n].parent].total_score = @ + s],
             ns[n].parent, s)

\* Variant: the walk stops below the root (while node.parent is not None).
RECURSIVE backpropagate_below_root(_, _, _)
backpropagate_below_root(ns, n, s) ==
    IF ns[n].parent = None THEN ns
    ELSE backpropagate_below_root([ns EXCEPT ![n].visits = @ + 1,
                                             ![n].total_score = @ + s],
                                  ns[n].parent, s)

\* Variant: only the starting node is updated, the walk to the parent is lost.
backpropagate_self_only(ns, n, s) ==
    [ns EXCEPT ![n].visits = @ + 1, ![n].total_score = @ + s]

\* Variant: the reward is added at the starting node only; its ancestors are
\* counted as visited without it.
RECURSIVE backpropagate_visits_only(_, _, _)
backpropagate_visits_only(ns, n, s) ==
    IF n = None THEN ns
    ELSE backpropagate_visits_only([ns EXCEPT ![n].visits = @ + 1,
                                              ![n].total_score = @ + s],
                                   ns[n].parent, 0)

\* backpropagate, lines 200-204: the walk from the node up to the root.
RECURSIVE backpropagate(_, _, _)
backpropagate(ns, n, s) ==
    IF n = None THEN ns
    ELSE backpropagate([ns EXCEPT ![n].visits = @ + 1,
                                  ![n].total_score = @ + s],
                       ns[n].parent, s)

\* Variant: max() keyed by the average reward total_score / visits.
best_action_by_average(ns, n) ==
    LET ch == ns[n].children
        v(a) == ns[ch[a].node].visits
        t(a) == ns[ch[a].node].total_score
        j  == CHOOSE a \in 1..Len(ch) :
                /\ \A b \in 1..Len(ch) : t(b) * v(a) <= t(a) * v(b)
                /\ \A b \in 1..(a - 1) : t(b) * v(a) < t(a) * v(b)
    IN ch[j].key

\* Key of the child max() returns: the first entry, in insertion order, whose
\* visits no other entry exceeds.
best_action(ns, n) ==
    LET ch == ns[n].children
        j  == CHOOSE a \in 1..Len(ch) :
                /\ \A b \in 1..Len(ch) : ns[ch[b].node].visits <= ns[ch[a].node].visits
                /\ \A b \in 1..(a - 1) : ns[ch[b].node].visits < ns[ch[a].node].visits
    IN ch[j].key

\* Variant: without children, the draw is among all hand slots, playable or
\* not, and end-turn.
get_best_any_card(ns, n, state) ==
    LET actions == get_actions(state)
    IN IF ns[n].children = <<>>
       THEN {[action |-> PlayCard(i), at |-> "random"] :
                i \in 0..(Len(state.hand) - 1)}
              \cup {[action |-> EndAgentTurn, at |-> "random"]}
       ELSE LET best  == best_action(ns, n)
                match == {j \in 1..Len(actions) : key(actions[j]) = best}
            IN IF match # {}
               THEN {[action |-> actions[CHOOSE j \in match : \A m \in match : j <= m],
                      at |-> "match"]}
               ELSE {[action |-> EndAgentTurn, at |-> "fallback"]}

\* Variant: the loop compares the action object with the key, which never
\* matches, so the fallback return is taken.
get_best_compare_action(ns, n, state) ==
    LET actions == get_actions(state)
    IN IF ns[n].children = <<>>
       THEN IF actions # <<>>
            THEN {[action |-> a, at |-> "random"] : a \in Range(actions)}
            ELSE {[action |-> EndAgentTurn, at |-> "empty"]}
       ELSE {[action |-> EndAgentTurn, at |-> "fallback"]}

\* The returns get_best can make, each with the return statement taken.
get_best(ns, n, state) ==
    LET actions == get_actions(state)
    IN IF ns[n].children = <<>>
       THEN IF actions # <<>>
            THEN {[action |-> a, at |-> "random"] : a \in Range(actions)}
            ELSE {[action |-> EndAgentTurn, at |-> "empty"]}
       ELSE LET best  == best_action(ns, n)
                match == {j \in 1..Len(actions) : key(actions[j]) = best}
            IN IF match # {}
               THEN {[action |-> actions[CHOOSE j \in match : \A m \in match : j <= m],
                      at |-> "match"]}
               ELSE {[action |-> EndAgentTurn, at |-> "fallback"]}

\* ---------------------------------------------------------------- state
Decisions == {1, 2}

Agents == {1, 2}

LiveRef(d) == d

CopyRef(d) == Cardinality(Decisions) + d

VARIABLES
    obj,          \* heap of BattleState objects: reference -> snapshot
    nodes,        \* heap of TreeNode objects: allocation index -> node
    root,         \* agent -> self.root (None before the first decision)
    iterations,   \* agent -> self.iterations
    weights,      \* agent -> the reward weights of the agent, in tenths
    agentClass,   \* agent -> the module its class MCTSAgent is from: ggpa or g3
    agentOf,      \* decision -> the agent (self) choose_card is called on
    pc,           \* decision -> position inside choose_card
    iter,         \* decision -> iterations of the for loop completed
    state_copy,   \* decision -> reference bound to state_copy / state
    node,         \* decision -> local `node' of TreeNode.step
    score,        \* decision -> local `score' of TreeNode.step
    result,       \* decision -> value returned by choose_card
    hist,         \* decision -> bookkeeping of what the decision has done
    begun,        \* node -> backpropagations that started at the node
    rng           \* decision -> the random source the invocation draws from

vars == <<obj, nodes, root, iterations, weights, agentClass, agentOf, pc, iter,
          state_copy, node, score, result, hist, begun, rng>>

NoResult == [action |-> NoAction, at |-> "none"]

NoHist ==
    [own_root |-> None,   \* the root this decision constructed
     live0    |-> <<>>,   \* the live snapshot when choose_card was called
     clones   |-> 0,      \* copies taken
     steps    |-> 0,      \* TreeNode.step calls entered
     stepped  |-> {},     \* references state.step was applied to
     rollouts |-> 0,      \* rollouts that returned a score
     backprops |-> 0,     \* backpropagations completed
     skipped  |-> 0,      \* iterations in which expand was not called
     applied  |-> <<>>]   \* actions select and expand applied to the copy
                          \* in the running iteration

\* ------------------------------------------------------ the random source
\* Python's random module: seeded, every draw is a function of the state of
\* the generator and of the candidates; unseeded, any candidate can come out.
Unseeded == [seeded |-> FALSE, state |-> 0]

Seeded(k) == [seeded |-> TRUE, state |-> k]

\* The candidates in the fixed order the generator indexes them by.
RECURSIVE SeqOf(_)
SeqOf(S) ==
    IF S = {} THEN <<>>
    ELSE LET x == CHOOSE y \in S : TRUE IN <<x>> \o SeqOf(S \ {x})

\* Variant: the draw ignores the seeded generator (a private unseeded source).
DrawUnseeded(d, S) == S

\* The values one draw among the candidates S can return for decision d.
Draw(d, S) ==
    IF rng[d].seeded
    THEN {SeqOf(S)[(rng[d].state % Cardinality(S)) + 1]}
    ELSE S

\* The generator after one draw of decision d.
Advance(d) ==
    [rng EXCEPT ![d].state = IF rng[d].seeded THEN @ + 1 ELSE @]

\* ------------------------------------------------------- live snapshots
GeneralLive == Snapshot(2, 2, 2, 2, 2, <<"Strike", "Bash">>, <<"Strike", "Bash">>)

OnlyEndLive == Snapshot(2, 2, 2, 2, 0, <<"Strike">>, <<"Strike", "Bash">>)

LostLive == Snapshot(0, 2, 2, 2, 2, <<"Strike">>, <<>>)

WonLive == Snapshot(1, 2, 0, 2, 1, <<>>, <<"Strike">>)

\* Playing the card wins at full health (1.0), ending the turn loses with no
\* damage dealt (0.0).
SkewedLive == Snapshot(1, 1, 1, 1, 1, <<"Strike">>, <<>>)

\* Only the middle card of the hand is affordable.
MixedLive == Snapshot(2, 2, 2, 2, 1, <<"Bash", "Strike", "Bash">>, <<"Strike">>)

LiveStates ==
    {GeneralLive, OnlyEndLive, LostLive, WonLive, SkewedLive, MixedLive}

Scenarios ==
    (LiveStates \X (0..MaxIter)) \cup ({SkewedLive} \X (20..MaxSkewIter))

Init ==
    \E sc \in Scenarios :
        /\ obj = [r \in {LiveRef(1)} |-> sc[1]]
        /\ nodes = <<>>
        /\ root = [a \in Agents |-> None]
        /\ iterations = [a \in Agents |-> sc[2]]
        /\ weights = [a \in Agents |-> DefaultWeights]
        /\ agentClass = [a \in Agents |-> "ggpa"]
        /\ agentOf = [d \in Decisions |-> d]
        /\ pc = [d \in Decisions |-> IF d = 1 THEN "idle" ELSE "off"]
        /\ iter = [d \in Decisions |-> 0]
        /\ state_copy = [d \in Decisions |-> None]
        /\ node = [d \in Decisions |-> None]
        /\ score = [d \in Decisions |-> 0]
        /\ result = [d \in Decisions |-> NoResult]
        /\ hist = [d \in Decisions |-> NoHist]
        /\ begun = <<>>
        /\ rng = [d \in Decisions |-> Unseeded]

\* Variant: root and iterations are kept in one place shared by every agent.
SharedSelf(d) == CHOOSE a \in Agents : \A b \in Agents : a <= b

\* The agent object whose attributes the invocation reads and writes.
Self(d) == agentOf[d]

\* The snapshot the decision's `state' parameter refers to.
St(d) == obj[state_copy[d]]

\* Variant: state_copy = battle_state, no new object.
NoCopy(d) == LiveRef(d)

\* The reference state_copy is bound to by line 41: a new object.
NewCopy(d) == CopyRef(d)

\* ------------------------------------------------------------- actions
\* Variant: the tree of the previous decision is kept when there is one.
ChooseCardReuse(d) ==
    /\ pc[d] = "idle"
    /\ IF root[Self(d)] = None
       THEN /\ nodes' = Append(nodes, TreeNode(NoAction, None))
            /\ begun' = Append(begun, 0)
            /\ root' = [root EXCEPT ![Self(d)] = Len(nodes) + 1]
       ELSE UNCHANGED <<nodes, begun, root>>
    /\ iter' = [iter EXCEPT ![d] = 0]
    /\ pc' = [pc EXCEPT ![d] = "loop"]
    /\ hist' = [hist EXCEPT ![d].own_root = root'[Self(d)],
                            ![d].live0 = obj[LiveRef(d)]]
    /\ UNCHANGED <<obj, iterations, weights, agentClass, agentOf, state_copy, node, score,
                   result, rng>>

\* choose_card, line 36: self.root = TreeNode(None, None, self.parameter)
ChooseCard(d) ==
    /\ pc[d] = "idle"
    /\ nodes' = Append(nodes, TreeNode(NoAction, None))
    /\ begun' = Append(begun, 0)
    /\ root' = [root EXCEPT ![Self(d)] = Len(nodes) + 1]
    /\ iter' = [iter EXCEPT ![d] = 0]
    /\ pc' = [pc EXCEPT ![d] = "loop"]
    /\ hist' = [hist EXCEPT ![d].own_root = Len(nodes) + 1,
                            ![d].live0 = obj[LiveRef(d)]]
    /\ UNCHANGED <<obj, iterations, weights, agentClass, agentOf, state_copy, node, score,
                   result, rng>>

\* choose_card, lines 39-42: copy the state and enter self.root.step; the
\* first statement of step binds node = self (select, line 117).
CopyState(d) ==
    /\ pc[d] = "loop"
    /\ iter[d] < iterations[Self(d)]
    /\ \E c \in Draw(d, copy_undeterministic(obj[LiveRef(d)])) :
          obj' = [r \in DOMAIN obj \cup {NewCopy(d)} |->
                    IF r = NewCopy(d) THEN c ELSE obj[r]]
    /\ state_copy' = [state_copy EXCEPT ![d] = NewCopy(d)]
    /\ node' = [node EXCEPT ![d] = root[Self(d)]]
    /\ pc' = [pc EXCEPT ![d] = "select"]
    /\ rng' = Advance(d)
    /\ hist' = [hist EXCEPT ![d].clones = @ + 1, ![d].steps = @ + 1,
                            ![d].applied = <<>>]
    /\ UNCHANGED <<nodes, root, iterations, weights, agentClass, agentOf, iter, score,
                   result, begun>>

\* select, lines 122-124: first visit computes the unexplored actions.
SelectFirstVisit(d) ==
    /\ pc[d] = "select"
    /\ ~ended(St(d))
    /\ nodes[node[d]].visits = 0
    /\ nodes' = [nodes EXCEPT ![node[d]].unexplored_actions = get_actions(St(d))]
    /\ pc' = [pc EXCEPT ![d] = "selected"]
    /\ UNCHANGED <<obj, root, iterations, weights, agentClass, agentOf, iter, state_copy,
                   node, score, result, hist, begun, rng>>

\* select, lines 120, 127-128, 131-132, 139: the descent stops at this node.
SelectReturn(d) ==
    /\ pc[d] = "select"
    /\ \/ ended(St(d))
       \/ /\ nodes[node[d]].visits # 0
          /\ \/ nodes[node[d]].unexplored_actions # <<>>
             \/ nodes[node[d]].children = <<>>
    /\ pc' = [pc EXCEPT ![d] = "selected"]
    /\ UNCHANGED <<obj, nodes, root, iterations, weights, agentClass, agentOf, iter,
                   state_copy, node, score, result, hist, begun, rng>>

\* Variant: select moves to the drawn child without applying its action to
\* the state.
SelectChildNoStep(d) ==
    /\ pc[d] = "select"
    /\ ~ended(St(d))
    /\ nodes[node[d]].visits # 0
    /\ nodes[node[d]].unexplored_actions = <<>>
    /\ nodes[node[d]].children # <<>>
    /\ \E action \in Draw(d, select_child_action(nodes, node[d])) :
          node' = [node EXCEPT ![d] = Lookup(nodes[node[d]].children, key(action))]
    /\ rng' = Advance(d)
    /\ UNCHANGED <<obj, nodes, root, iterations, weights, agentClass, agentOf, pc, iter,
                   state_copy, score, result, hist, begun>>

\* Variant: select descends into a child although actions are still pending
\* at the node.
SelectChildEager(d) ==
    /\ pc[d] = "select"
    /\ ~ended(St(d))
    /\ nodes[node[d]].visits # 0
    /\ nodes[node[d]].children # <<>>
    /\ \E action \in Draw(d, select_child_action(nodes, node[d])) :
          IF Legal(St(d), action)
          THEN /\ obj' = [obj EXCEPT ![state_copy[d]] = StateStep(@, action)]
               /\ node' = [node EXCEPT
                             ![d] = Lookup(nodes[node[d]].children, key(action))]
               /\ pc' = pc
               /\ hist' = [hist EXCEPT ![d].stepped = @ \cup {state_copy[d]},
                                       ![d].applied = Append(@, action)]
          ELSE /\ pc' = [pc EXCEPT ![d] = "raised"]
               /\ UNCHANGED <<obj, node, hist>>
    /\ rng' = Advance(d)
    /\ UNCHANGED <<nodes, root, iterations, weights, agentClass, agentOf, iter, state_copy,
                   score, result, begun>>

\* select, lines 135-137: draw a child, apply its action, move to the child.
SelectChild(d) ==
    /\ pc[d] = "select"
    /\ ~ended(St(d))
    /\ nodes[node[d]].visits # 0
    /\ nodes[node[d]].unexplored_actions = <<>>
    /\ nodes[node[d]].children # <<>>
    /\ \E action \in Draw(d, select_child_action(nodes, node[d])) :
          IF Legal(St(d), action)
          THEN /\ obj' = [obj EXCEPT ![state_copy[d]] = StateStep(@, action)]
               /\ node' = [node EXCEPT
                             ![d] = Lookup(nodes[node[d]].children, key(action))]
               /\ pc' = pc
               /\ hist' = [hist EXCEPT ![d].stepped = @ \cup {state_copy[d]},
                                       ![d].applied = Append(@, action)]
          ELSE /\ pc' = [pc EXCEPT ![d] = "raised"]
               /\ UNCHANGED <<obj, node, hist>>
    /\ rng' = Advance(d)
    /\ UNCHANGED <<nodes, root, iterations, weights, agentClass, agentOf, iter, state_copy,
                   score, result, begun>>

\* Variant: the drawn action is left in the list.
ListKeep(l, x) == l

\* list.remove(x): drops the first element equal to x.
ListRemove(l, x) ==
    RemoveAt(l, CHOOSE j \in 1..Len(l) : l[j] = x /\ \A m \in 1..(j - 1) : l[m] # x)

\* Variant: expand computes the actions from the state on every call.
ExpandBodyRecompute(d) ==
    /\ LET self == node[d]
           ua   == get_actions(St(d))
       IN \E action \in Draw(d, Range(ua)) :
            LET child == Len(nodes) + 1
            IN /\ nodes' = Append(
                     [nodes EXCEPT
                        ![self].unexplored_actions = ListRemove(ua, action),
                        ![self].children = DictSet(@, key(action), child)],
                     TreeNode(action, self))
               /\ begun' = Append(begun, 0)
               /\ rng' = Advance(d)
               /\ obj' = [obj EXCEPT ![state_copy[d]] = StateStep(@, action)]
               /\ node' = [node EXCEPT ![d] = child]
               /\ pc' = [pc EXCEPT ![d] = "rollout"]
               /\ hist' = [hist EXCEPT
                             ![d].stepped = @ \cup {state_copy[d]},
                             ![d].applied = Append(@, action)]
    /\ UNCHANGED <<root, iterations, weights, agentClass, agentOf, iter, state_copy, score,
                   result>>

\* expand, lines 152-170, called on the decision's current node.
ExpandBody(d) ==
    /\ LET self == node[d]
           ua   == IF nodes[self].unexplored_actions = <<>>
                   THEN get_actions(St(d))
                   ELSE nodes[self].unexplored_actions
       IN IF ua = <<>>
          THEN /\ pc' = [pc EXCEPT ![d] = "rollout"]
               /\ UNCHANGED <<obj, nodes, node, hist, begun, rng>>
          ELSE \E action \in Draw(d, Range(ua)) :
                 LET child == Len(nodes) + 1
                 IN /\ nodes' = Append(
                          [nodes EXCEPT
                             ![self].unexplored_actions = ListRemove(ua, action),
                             ![self].children = DictSet(@, key(action), child)],
                          TreeNode(action, self))
                    /\ begun' = Append(begun, 0)
                    /\ rng' = Advance(d)
                    /\ IF Legal(St(d), action)
                       THEN /\ obj' = [obj EXCEPT
                                         ![state_copy[d]] = StateStep(@, action)]
                            /\ node' = [node EXCEPT ![d] = child]
                            /\ pc' = [pc EXCEPT ![d] = "rollout"]
                            /\ hist' = [hist EXCEPT
                                          ![d].stepped = @ \cup {state_copy[d]},
                                          ![d].applied = Append(@, action)]
                       ELSE /\ pc' = [pc EXCEPT ![d] = "raised"]
                            /\ UNCHANGED <<obj, node, hist>>
    /\ UNCHANGED <<root, iterations, weights, agentClass, agentOf, iter, state_copy, score,
                   result>>

\* Variant: expand is called although the state has ended.
ExpandEnded(d) ==
    /\ pc[d] = "selected"
    /\ ended(St(d))
    /\ ExpandBody(d)

\* step, line 97, state ended: expand is not called.
SkipExpand(d) ==
    /\ pc[d] = "selected"
    /\ ended(St(d))
    /\ pc' = [pc EXCEPT ![d] = "rollout"]
    /\ hist' = [hist EXCEPT ![d].skipped = @ + 1]
    /\ UNCHANGED <<obj, nodes, root, iterations, weights, agentClass, agentOf, iter,
                   state_copy, node, score, result, begun, rng>>

\* step, lines 97-98: the state has not ended, node = node.expand(state).
Expand(d) ==
    /\ pc[d] = "selected"
    /\ ~ended(St(d))
    /\ ExpandBody(d)

\* Variant: the drawn action is not applied to the state.
RolloutStay(d) ==
    /\ pc[d] = "rollout"
    /\ ~ended(St(d))
    /\ get_actions(St(d)) # <<>>
    /\ \E action \in Draw(d, Range(get_actions(St(d)))) : obj' = obj
    /\ rng' = Advance(d)
    /\ hist' = [hist EXCEPT ![d].stepped = @ \cup {state_copy[d]}]
    /\ UNCHANGED <<nodes, root, iterations, weights, agentClass, agentOf, pc, iter,
                   state_copy, node, score, result, begun>>

\* rollout, lines 183-188: one random step of the play-out.
RolloutStep(d) ==
    /\ pc[d] = "rollout"
    /\ ~ended(St(d))
    /\ get_actions(St(d)) # <<>>
    /\ \E action \in Draw(d, Range(get_actions(St(d)))) :
          obj' = [obj EXCEPT ![state_copy[d]] = StateStep(@, action)]
    /\ rng' = Advance(d)
    /\ hist' = [hist EXCEPT ![d].stepped = @ \cup {state_copy[d]}]
    /\ UNCHANGED <<nodes, root, iterations, weights, agentClass, agentOf, pc, iter,
                   state_copy, node, score, result, begun>>

\* rollout, lines 183, 185-186, 191: the play-out is over, evaluate.
RolloutReturn(d) ==
    /\ pc[d] = "rollout"
    /\ ended(St(d)) \/ get_actions(St(d)) = <<>>
    /\ IF evaluate_raises(St(d))
       THEN /\ pc' = [pc EXCEPT ![d] = "raised"]
            /\ UNCHANGED <<score, hist>>
       ELSE /\ score' = [score EXCEPT ![d] = evaluate_state(St(d))]
            /\ pc' = [pc EXCEPT ![d] = "backpropagate"]
            /\ hist' = [hist EXCEPT ![d].rollouts = @ + 1]
    /\ UNCHANGED <<obj, nodes, root, iterations, weights, agentClass, agentOf, iter,
                   state_copy, node, result, begun, rng>>

\* step, line 104, and the return to the loop of choose_card.
Backpropagate(d) ==
    /\ pc[d] = "backpropagate"
    /\ nodes' = backpropagate(nodes, node[d], score[d])
    /\ begun' = [begun EXCEPT ![node[d]] = @ + 1]
    /\ iter' = [iter EXCEPT ![d] = @ + 1]
    /\ pc' = [pc EXCEPT ![d] = "loop"]
    /\ hist' = [hist EXCEPT ![d].backprops = @ + 1]
    /\ UNCHANGED <<obj, root, iterations, weights, agentClass, agentOf, state_copy, node,
                   score, result, rng>>

\* choose_card, line 45: return self.root.get_best(battle_state)
GetBest(d) ==
    /\ pc[d] = "loop"
    /\ iter[d] >= iterations[Self(d)]
    /\ \E r \in Draw(d, get_best(nodes, root[Self(d)], obj[LiveRef(d)])) :
          result' = [result EXCEPT ![d] = r]
    /\ rng' = IF nodes[root[Self(d)]].children = <<>> THEN Advance(d) ELSE rng
    /\ pc' = [pc EXCEPT ![d] = "done"]
    /\ UNCHANGED <<obj, nodes, root, iterations, weights, agentClass, agentOf, iter,
                   state_copy, node, score, hist, begun>>

Next ==
    \E d \in Decisions :
        \/ ChooseCard(d)
        \/ CopyState(d)
        \/ SelectFirstVisit(d)
        \/ SelectReturn(d)
        \/ SelectChild(d)
        \/ SkipExpand(d)
        \/ Expand(d)
        \/ RolloutStep(d)
        \/ RolloutReturn(d)
        \/ Backpropagate(d)
        \/ GetBest(d)

Spec == Init /\ [][Next]_vars

\* choose_card runs to completion: the interpreter executes the next statement
\* of the call as long as there is one.
SpecLive == Init /\ [][Next]_vars /\ WF_vars(Next)

\* Two decisions in flight at once: two games from the batch harness, each
\* with its own live battle state, played by two agent objects or by one.
InitConc ==
    \E l1 \in {OnlyEndLive}, l2 \in {SkewedLive}, n \in 1..ConcIter, a2 \in Agents :
        /\ obj = [r \in {LiveRef(1), LiveRef(2)} |-> IF r = LiveRef(1) THEN l1 ELSE l2]
        /\ nodes = <<>>
        /\ root = [a \in Agents |-> None]
        /\ iterations = [a \in Agents |-> n]
        /\ weights = [a \in Agents |-> DefaultWeights]
        /\ agentClass = [a \in Agents |-> "ggpa"]
        /\ agentOf = [d \in Decisions |-> IF d = 1 THEN 1 ELSE a2]
        /\ pc = [d \in Decisions |-> "idle"]
        /\ iter = [d \in Decisions |-> 0]
        /\ state_copy = [d \in Decisions |-> None]
        /\ node = [d \in Decisions |-> None]
        /\ score = [d \in Decisions |-> 0]
        /\ result = [d \in Decisions |-> NoResult]
        /\ hist = [d \in Decisions |-> NoHist]
        /\ begun = <<>>
        /\ rng = [d \in Decisions |-> Unseeded]

SpecConc == InitConc /\ [][Next]_vars

\* Two runs of choose_card with the same configuration on the same initial
\* snapshot, each drawing from its own generator seeded with the same seed.
InitDet ==
    \E l \in LiveStates, n \in 0..DetIter, k \in 0..MaxSeed :
        /\ obj = [r \in {LiveRef(1), LiveRef(2)} |-> l]
        /\ nodes = <<>>
        /\ root = [a \in Agents |-> None]
        /\ iterations = [a \in Agents |-> n]
        /\ weights = [a \in Agents |-> DefaultWeights]
        /\ agentClass = [a \in Agents |-> "ggpa"]
        /\ agentOf = [d \in Decisions |-> d]
        /\ pc = [d \in Decisions |-> "idle"]
        /\ iter = [d \in Decisions |-> 0]
        /\ state_copy = [d \in Decisions |-> None]
        /\ node = [d \in Decisions |-> None]
        /\ score = [d \in Decisions |-> 0]
        /\ result = [d \in Decisions |-> NoResult]
        /\ hist = [d \in Decisions |-> NoHist]
        /\ begun = <<>>
        /\ rng = [d \in Decisions |-> Seeded(k)]

SpecDet == InitDet /\ [][Next]_vars

\* ------------------------------------- the configurable variant (g3)
\* TreeNode.__init__ (g3), lines 71-95: the node also holds the reward weights
\* it was constructed with.
TreeNodeG3(action, parent, w) ==
    [action             |-> action,
     parent             |-> parent,
     weights            |-> w,
     children           |-> <<>>,
     visits             |-> 0,
     total_score        |-> 0,
     unexplored_actions |-> <<>>]

\* _get_actions (g3), lines 198-201: the loop over the hand from index i on.
RECURSIVE PlayActionsG3(_, _)
PlayActionsG3(state, i) ==
    IF i >= Len(state.hand) THEN <<>>
    ELSE (IF is_playable(state, i) THEN <<PlayCard(i)>> ELSE <<>>)
           \o PlayActionsG3(state, i + 1)

\* _get_actions (g3), lines 197-205.
get_actions_g3(state) == Append(PlayActionsG3(state, 0), EndAgentTurn)

\* Variant: the child inserted first is always the one selected.
select_child_action_g3_first(ns, n) ==
    {ns[ns[n].children[1].node].action}

\* The actions _select_child_action (g3) can return at node n of tree ns.  A
\* child with no visit has unbounded priority and the draw is among those;
\* otherwise every child has a softmax weight
\* exp((ucb - max_ucb) / temperature) > 0.
select_child_action_g3(ns, n) ==
    LET ch        == ns[n].children
        unvisited == {j \in 1..Len(ch) : ns[ch[j].node].visits = 0}
        drawn     == IF unvisited # {} THEN unvisited ELSE 1..Len(ch)
    IN {ns[ch[j].node].action : j \in drawn}

\* backpropagate (g3), lines 163-168.
RECURSIVE backpropagate_g3(_, _, _)
backpropagate_g3(ns, n, s) ==
    IF n = None THEN ns
    ELSE backpropagate_g3([ns EXCEPT ![n].visits = @ + 1,
                                     ![n].total_score = @ + s],
                          ns[n].parent, s)

\* get_best (g3), lines 175-176: the first entry, in insertion order, whose
\* visits no other entry exceeds.
best_action_g3(ns, n) ==
    LET ch == ns[n].children
        j  == CHOOSE a \in 1..Len(ch) :
                /\ \A b \in 1..Len(ch) : ns[ch[b].node].visits <= ns[ch[a].node].visits
                /\ \A b \in 1..(a - 1) : ns[ch[b].node].visits < ns[ch[a].node].visits
    IN ch[j].key

\* get_best (g3), lines 170-182: the returns it can make, each with the return
\* statement taken.
get_best_g3(ns, n, state) ==
    LET actions == get_actions_g3(state)
    IN IF ns[n].children = <<>>
       THEN IF actions # <<>>
            THEN {[action |-> a, at |-> "random"] : a \in Range(actions)}
            ELSE {[action |-> EndAgentTurn, at |-> "empty"]}
       ELSE LET best  == best_action_g3(ns, n)
                match == {j \in 1..Len(actions) : key(actions[j]) = best}
            IN IF match # {}
               THEN {[action |-> actions[CHOOSE j \in match : \A m \in match : j <= m],
                      at |-> "match"]}
               ELSE {[action |-> EndAgentTurn, at |-> "fallback"]}

\* choose_card (g3), lines 40-50: self.root = TreeNode(None, None, ...) with
\* the agent's parameters.
G3ChooseCard(d) ==
    /\ pc[d] = "idle"
    /\ nodes' = Append(nodes, TreeNodeG3(NoAction, None, weights[Self(d)]))
    /\ begun' = Append(begun, 0)
    /\ root' = [root EXCEPT ![Self(d)] = Len(nodes) + 1]
    /\ iter' = [iter EXCEPT ![d] = 0]
    /\ pc' = [pc EXCEPT ![d] = "loop"]
    /\ hist' = [hist EXCEPT ![d].own_root = Len(nodes) + 1,
                            ![d].live0 = obj[LiveRef(d)]]
    /\ UNCHANGED <<obj, iterations, weights, agentClass, agentOf, state_copy,
                   node, score, result, rng>>

\* choose_card (g3), lines 52-54: copy the state and enter self.root.step; the
\* first statement of step binds node = self (select, line 107).
G3CopyState(d) ==
    /\ pc[d] = "loop"
    /\ iter[d] < iterations[Self(d)]
    /\ \E c \in Draw(d, copy_undeterministic(obj[LiveRef(d)])) :
          obj' = [r \in DOMAIN obj \cup {NewCopy(d)} |->
                    IF r = NewCopy(d) THEN c ELSE obj[r]]
    /\ state_copy' = [state_copy EXCEPT ![d] = NewCopy(d)]
    /\ node' = [node EXCEPT ![d] = root[Self(d)]]
    /\ pc' = [pc EXCEPT ![d] = "select"]
    /\ rng' = Advance(d)
    /\ hist' = [hist EXCEPT ![d].clones = @ + 1, ![d].steps = @ + 1,
                            ![d].applied = <<>>]
    /\ UNCHANGED <<nodes, root, iterations, weights, agentClass, agentOf, iter,
                   score, result, begun>>

\* select (g3), lines 110-112: first visit computes the unexplored actions.
G3SelectFirstVisit(d) ==
    /\ pc[d] = "select"
    /\ ~ended(St(d))
    /\ nodes[node[d]].visits = 0
    /\ nodes' = [nodes EXCEPT
                   ![node[d]].unexplored_actions = get_actions_g3(St(d))]
    /\ pc' = [pc EXCEPT ![d] = "selected"]
    /\ UNCHANGED <<obj, root, iterations, weights, agentClass, agentOf, iter,
                   state_copy, node, score, result, hist, begun, rng>>

\* select (g3), lines 109, 114-115, 117-118, 124: the descent stops at this
\* node.
G3SelectReturn(d) ==
    /\ pc[d] = "select"
    /\ \/ ended(St(d))
       \/ /\ nodes[node[d]].visits # 0
          /\ \/ nodes[node[d]].unexplored_actions # <<>>
             \/ nodes[node[d]].children = <<>>
    /\ pc' = [pc EXCEPT ![d] = "selected"]
    /\ UNCHANGED <<obj, nodes, root, iterations, weights, agentClass, agentOf,
                   iter, state_copy, node, score, result, hist, begun, rng>>

\* select (g3), lines 120-122: draw a child, apply its action, move to the
\* child.
G3SelectChild(d) ==
    /\ pc[d] = "select"
    /\ ~ended(St(d))
    /\ nodes[node[d]].visits # 0
    /\ nodes[node[d]].unexplored_actions = <<>>
    /\ nodes[node[d]].children # <<>>
    /\ \E action \in Draw(d, select_child_action_g3(nodes, node[d])) :
          IF Legal(St(d), action)
          THEN /\ obj' = [obj EXCEPT ![state_copy[d]] = StateStep(@, action)]
               /\ node' = [node EXCEPT
                             ![d] = Lookup(nodes[node[d]].children, key(action))]
               /\ pc' = pc
               /\ hist' = [hist EXCEPT ![d].stepped = @ \cup {state_copy[d]},
                                       ![d].applied = Append(@, action)]
          ELSE /\ pc' = [pc EXCEPT ![d] = "raised"]
               /\ UNCHANGED <<obj, node, hist>>
    /\ rng' = Advance(d)
    /\ UNCHANGED <<nodes, root, iterations, weights, agentClass, agentOf, iter,
                   state_copy, score, result, begun>>

\* step (g3), line 100, state ended: expand is not called.
G3SkipExpand(d) ==
    /\ pc[d] = "selected"
    /\ ended(St(d))
    /\ pc' = [pc EXCEPT ![d] = "simulate"]
    /\ hist' = [hist EXCEPT ![d].skipped = @ + 1]
    /\ UNCHANGED <<obj, nodes, root, iterations, weights, agentClass, agentOf,
                   iter, state_copy, node, score, result, begun, rng>>

\* step (g3), lines 100-101, and expand, lines 127-151, called on the
\* decision's current node; the child is constructed with the weights of the
\* node.
G3Expand(d) ==
    /\ pc[d] = "selected"
    /\ ~ended(St(d))
    /\ LET self == node[d]
           ua   == IF nodes[self].unexplored_actions = <<>>
                   THEN get_actions_g3(St(d))
                   ELSE nodes[self].unexplored_actions
       IN IF ua = <<>>
          THEN /\ pc' = [pc EXCEPT ![d] = "simulate"]
               /\ UNCHANGED <<obj, nodes, node, hist, begun, rng>>
          ELSE \E action \in Draw(d, Range(ua)) :
                 LET child == Len(nodes) + 1
                 IN /\ nodes' = Append(
                          [nodes EXCEPT
                             ![self].unexplored_actions = ListRemove(ua, action),
                             ![self].children = DictSet(@, key(action), child)],
                          TreeNodeG3(action, self, nodes[self].weights))
                    /\ begun' = Append(begun, 0)
                    /\ rng' = Advance(d)
                    /\ IF Legal(St(d), action)
                       THEN /\ obj' = [obj EXCEPT
                                         ![state_copy[d]] = StateStep(@, action)]
                            /\ node' = [node EXCEPT ![d] = child]
                            /\ pc' = [pc EXCEPT ![d] = "simulate"]
                            /\ hist' = [hist EXCEPT
                                          ![d].stepped = @ \cup {state_copy[d]},
                                          ![d].applied = Append(@, action)]
                       ELSE /\ pc' = [pc EXCEPT ![d] = "raised"]
                            /\ UNCHANGED <<obj, node, hist>>
    /\ UNCHANGED <<root, iterations, weights, agentClass, agentOf, iter,
                   state_copy, score, result>>

\* simulate (g3), lines 154-159: one random step of the play-out.
SimulateStep(d) ==
    /\ pc[d] = "simulate"
    /\ ~ended(St(d))
    /\ get_actions_g3(St(d)) # <<>>
    /\ \E action \in Draw(d, Range(get_actions_g3(St(d)))) :
          obj' = [obj EXCEPT ![state_copy[d]] = StateStep(@, action)]
    /\ rng' = Advance(d)
    /\ hist' = [hist EXCEPT ![d].stepped = @ \cup {state_copy[d]}]
    /\ UNCHANGED <<nodes, root, iterations, weights, agentClass, agentOf, pc,
                   iter, state_copy, node, score, result, begun>>

\* simulate (g3), lines 154, 156-157, 161: the play-out is over, the node
\* evaluates the state with its weights.
SimulateReturn(d) ==
    /\ pc[d] = "simulate"
    /\ ended(St(d)) \/ get_actions_g3(St(d)) = <<>>
    /\ IF evaluate_raises(St(d))
       THEN /\ pc' = [pc EXCEPT ![d] = "raised"]
            /\ UNCHANGED <<score, hist>>
       ELSE /\ score' = [score EXCEPT
                           ![d] = evaluate_state_g3(St(d), nodes[node[d]].weights)]
            /\ pc' = [pc EXCEPT ![d] = "backpropagate"]
            /\ hist' = [hist EXCEPT ![d].rollouts = @ + 1]
    /\ UNCHANGED <<obj, nodes, root, iterations, weights, agentClass, agentOf,
                   iter, state_copy, node, result, begun, rng>>

\* step (g3), line 104, and the return to the loop of choose_card.
G3Backpropagate(d) ==
    /\ pc[d] = "backpropagate"
    /\ nodes' = backpropagate_g3(nodes, node[d], score[d])
    /\ begun' = [begun EXCEPT ![node[d]] = @ + 1]
    /\ iter' = [iter EXCEPT ![d] = @ + 1]
    /\ pc' = [pc EXCEPT ![d] = "loop"]
    /\ hist' = [hist EXCEPT ![d].backprops = @ + 1]
    /\ UNCHANGED <<obj, root, iterations, weights, agentClass, agentOf,
                   state_copy, node, score, result, rng>>

\* choose_card (g3), line 56: return self.root.get_best(battle_state)
G3GetBest(d) ==
    /\ pc[d] = "loop"
    /\ iter[d] >= iterations[Self(d)]
    /\ \E r \in Draw(d, get_best_g3(nodes, root[Self(d)], obj[LiveRef(d)])) :
          result' = [result EXCEPT ![d] = r]
    /\ rng' = IF nodes[root[Self(d)]].children = <<>> THEN Advance(d) ELSE rng
    /\ pc' = [pc EXCEPT ![d] = "done"]
    /\ UNCHANGED <<obj, nodes, root, iterations, weights, agentClass, agentOf,
                   iter, state_copy, node, score, hist, begun>>

\* The two variants side by side: a fixed-weight agent (ggpa) and a
\* configurable agent (g3) constructed with its default parameters decide on
\* the same initial snapshot, each drawing from its own generator seeded with
\* the same seed.
InitEq ==
    \E l \in LiveStates, n \in 0..DetIter, k \in 0..MaxSeed :
        /\ obj = [r \in {LiveRef(1), LiveRef(2)} |-> l]
        /\ nodes = <<>>
        /\ root = [a \in Agents |-> None]
        /\ iterations = [a \in Agents |-> n]
        /\ weights = [a \in Agents |-> DefaultWeights]
        /\ agentClass = [a \in Agents |->
                           IF \A b \in Agents : a <= b THEN "ggpa" ELSE "g3"]
        /\ agentOf = [d \in Decisions |-> d]
        /\ pc = [d \in Decisions |-> "idle"]
        /\ iter = [d \in Decisions |-> 0]
        /\ state_copy = [d \in Decisions |-> None]
        /\ node = [d \in Decisions |-> None]
        /\ score = [d \in Decisions |-> 0]
        /\ result = [d \in Decisions |-> NoResult]
        /\ hist = [d \in Decisions |-> NoHist]
        /\ begun = <<>>
        /\ rng = [d \in Decisions |-> Seeded(k)]

\* Each decision executes the methods of the class of its agent.
NextEq ==
    \E d \in Decisions :
        \/ /\ agentClass[Self(d)] = "ggpa"
           /\ \/ ChooseCard(d)
              \/ CopyState(d)
              \/ SelectFirstVisit(d)
              \/ SelectReturn(d)
              \/ SelectChild(d)
              \/ SkipExpand(d)
              \/ Expand(d)
              \/ RolloutStep(d)
              \/ RolloutReturn(d)
              \/ Backpropagate(d)
              \/ GetBest(d)
        \/ /\ agentClass[Self(d)] = "g3"
           /\ \/ G3ChooseCard(d)
              \/ G3CopyState(d)
              \/ G3SelectFirstVisit(d)
              \/ G3SelectReturn(d)
              \/ G3SelectChild(d)
              \/ G3SkipExpand(d)
              \/ G3Expand(d)
              \/ SimulateStep(d)
              \/ SimulateReturn(d)
              \/ G3Backpropagate(d)
              \/ G3GetBest(d)

SpecEq == InitEq /\ [][NextEq]_vars

\* ------------------------------------------- _evaluate_state on its own
\* A snapshot as _evaluate_state reads it: the player's and the enemy's health
\* and max_health.
EvalSnapshot(hp, maxhp, ehp, emaxhp) == Snapshot(hp, maxhp, ehp, emaxhp, 0, <<>>, <<>>)

\* Snapshots whose health and damage ratios lie in [0,1].
InRangeInputs ==
    {EvalSnapshot(hp, EvalMaxHp, ehp, EvalMaxEhp) :
        hp \in 0..EvalMaxHp, ehp \in 0..EvalMaxEhp}

\* Snapshots with raw values: health below zero or above max_health, and
\* max_health zero.
RawInputs ==
    {EvalSnapshot(hp, maxhp, ehp, emaxhp) :
        hp \in (-1)..(EvalMaxHp + 1), maxhp \in {0, EvalMaxHp},
        ehp \in (-1)..(EvalMaxEhp + 1), emaxhp \in {0, EvalMaxEhp}}

\* Configurations of the reward weights, all strictly positive, the defaults
\* among them.
WeightConfigs ==
    {[win_base_reward       |-> wb,
      win_health_bonus      |-> 2,
      loss_damage_weight    |-> ld,
      ongoing_damage_weight |-> od,
      ongoing_health_weight |-> oh] :
        wb \in {2, 8}, ld \in {3, 9}, od \in {1, 7}, oh \in {1, 3}}

\* One agent evaluates one raw snapshot, or two snapshots with ratios in
\* [0,1], with the fixed weights of ggpa or the configured weights of g3.
InitEval ==
    \E variant \in {"ggpa", "g3"}, w \in WeightConfigs, two \in BOOLEAN,
       s1 \in RawInputs \cup InRangeInputs, s2 \in InRangeInputs :
        /\ variant = "ggpa" => w = DefaultWeights
        /\ IF two
           THEN /\ s1 \in InRangeInputs
                /\ obj = [r \in {LiveRef(1), LiveRef(2)} |->
                            IF r = LiveRef(1) THEN s1 ELSE s2]
           ELSE /\ s1 \in RawInputs
                /\ s2 = EvalSnapshot(0, EvalMaxHp, 0, EvalMaxEhp)
                /\ obj = [r \in {LiveRef(1)} |-> s1]
        /\ nodes = <<>>
        /\ root = [a \in Agents |-> None]
        /\ iterations = [a \in Agents |-> 0]
        /\ weights = [a \in Agents |-> w]
        /\ agentClass = [a \in Agents |-> variant]
        /\ agentOf = [d \in Decisions |-> 1]
        /\ pc = [d \in Decisions |->
                   IF d = 1 \/ two
                   THEN (IF variant = "ggpa" THEN "evaluate" ELSE "evaluate_g3")
                   ELSE "off"]
        /\ iter = [d \in Decisions |-> 0]
        /\ state_copy = [d \in Decisions |-> IF d = 1 \/ two THEN LiveRef(d) ELSE None]
        /\ node = [d \in Decisions |-> None]
        /\ score = [d \in Decisions |-> 0]
        /\ result = [d \in Decisions |-> NoResult]
        /\ hist = [d \in Decisions |-> NoHist]
        /\ begun = <<>>
        /\ rng = [d \in Decisions |-> Unseeded]

\* _evaluate_state (ggpa), lines 313-350.
EvaluateState(d) ==
    /\ pc[d] = "evaluate"
    /\ IF evaluate_raises(St(d))
       THEN /\ pc' = [pc EXCEPT ![d] = "raised"]
            /\ score' = score
       ELSE /\ pc' = [pc EXCEPT ![d] = "evaluated"]
            /\ score' = [score EXCEPT ![d] = evaluate_state(St(d))]
    /\ UNCHANGED <<obj, nodes, root, iterations, weights, agentClass, agentOf, iter,
                   state_copy, node, result, hist, begun, rng>>

\* _evaluate_state (g3), lines 233-250.
EvaluateStateG3(d) ==
    /\ pc[d] = "evaluate_g3"
    /\ IF evaluate_raises(St(d))
       THEN /\ pc' = [pc EXCEPT ![d] = "raised"]
            /\ score' = score
       ELSE /\ pc' = [pc EXCEPT ![d] = "evaluated_g3"]
            /\ score' = [score EXCEPT
                           ![d] = evaluate_state_g3(St(d), weights[Self(d)])]
    /\ UNCHANGED <<obj, nodes, root, iterations, weights, agentClass, agentOf, iter,
                   state_copy, node, result, hist, begun, rng>>

NextEval ==
    \E d \in Decisions :
        \/ EvaluateState(d)
        \/ EvaluateStateG3(d)

SpecEval == InitEval /\ [][NextEval]_vars

\* ------------------------------------------------- properties: helpers
Root(d) == root[Self(d)]

Budget(d) == iterations[Self(d)]

Live(d) == obj[LiveRef(d)]

Returned(d) == pc[d] = "done"

ChildVisits(n) ==
    SumSeq([j \in 1..Len(nodes[n].children) |->
              nodes[nodes[n].children[j].node].visits])

\* Root child reached by the given action key (None when there is none).
RootChild(d, k) ==
    IF k \in Keys(nodes[Root(d)].children)
    THEN Lookup(nodes[Root(d)].children, k) ELSE None

\* C1: between iterations and at the return, the number of step calls, of
\* rollouts evaluated, of backpropagations and the root's visits all equal the
\* number of iterations completed, which is the budget N when choose_card
\* returns.
C1_BudgetRespect ==
    \A d \in Decisions :
        pc[d] \in {"loop", "done"} =>
            /\ hist[d].steps = iter[d]
            /\ hist[d].rollouts = iter[d]
            /\ hist[d].backprops = iter[d]
            /\ nodes[Root(d)].visits = iter[d]
            /\ Returned(d) => iter[d] = Budget(d)

C1_Witness ==
    /\ Returned(1)
    /\ Budget(1) = MaxIter
    /\ nodes[Root(1)].visits = MaxIter
    /\ hist[1].rollouts = MaxIter

\* C2: visit conservation.  After every complete iteration each node's visits
\* equal the visits of its children plus the backpropagations that started at
\* the node itself.
C2_VisitConservation ==
    (\A d \in Decisions : pc[d] \in {"idle", "off", "loop", "done"}) =>
        \A n \in 1..Len(nodes) :
            nodes[n].visits = ChildVisits(n) + begun[n]

C2_Witness ==
    /\ Returned(1)
    /\ \E n \in 1..Len(nodes) :
          /\ nodes[n].children # <<>>
          /\ ChildVisits(n) > 0
          /\ begun[n] > 0
    /\ \E n \in 1..Len(nodes) : nodes[n].children = <<>> /\ begun[n] > 1

\* C3: when the root has children, the returned action is the action of a
\* root child that no other root child exceeds in visits, whatever the
\* children's average rewards are.
C3_MostVisited ==
    \A d \in Decisions :
        (Returned(d) /\ nodes[Root(d)].children # <<>>) =>
            LET c == RootChild(d, key(result[d].action))
            IN /\ c # None
               /\ \A j \in 1..Len(nodes[Root(d)].children) :
                     nodes[nodes[Root(d)].children[j].node].visits
                        <= nodes[c].visits

\* The chosen child has a strictly lower average reward than another child.
C3_Witness ==
    /\ Returned(1)
    /\ nodes[Root(1)].children # <<>>
    /\ LET c == RootChild(1, key(result[1].action))
       IN /\ c # None
          /\ \E j \in 1..Len(nodes[Root(1)].children) :
                LET o == nodes[Root(1)].children[j].node
                IN /\ nodes[o].visits < nodes[c].visits
                   /\ nodes[c].total_score * nodes[o].visits
                        < nodes[o].total_score * nodes[c].visits

\* C4 as stated: a root without children makes get_best return end-turn.
C4_Original ==
    \A d \in Decisions :
        (Returned(d) /\ nodes[Root(d)].children = <<>>) =>
            result[d].action = EndAgentTurn

\* C4 amended: a root without children makes get_best return an action drawn
\* from the actions legal in the live state (line 219); end-turn is returned
\* for certain only when it is the only legal action.
C4_RandomLegal ==
    \A d \in Decisions :
        (Returned(d) /\ nodes[Root(d)].children = <<>>) =>
            /\ result[d].action \in Range(get_actions(Live(d)))
            /\ result[d].at = "random"
            /\ get_actions(Live(d)) = <<EndAgentTurn>>
                  => result[d].action = EndAgentTurn

C4_Witness ==
    /\ Returned(1)
    /\ nodes[Root(1)].children = <<>>
    /\ result[1].action.type = "PlayCard"

\* C5 as stated: a terminal live snapshot means no iteration is attempted.
C5_Original ==
    \A d \in Decisions :
        (Returned(d) /\ ended(Live(d))) =>
            /\ hist[d].clones = 0
            /\ hist[d].rollouts = 0
            /\ nodes[Root(d)].visits = 0

\* C5 amended: a terminal live snapshot still gets all N iterations; each one
\* takes a copy, stops select at the root, skips expand, applies no action to
\* the copy, evaluates it and backpropagates to the root, so that at the
\* return root.visits = N and the root is the only node.
C5_TerminalRootIterates ==
    \A d \in Decisions :
        (Returned(d) /\ ended(Live(d))) =>
            /\ hist[d].clones = Budget(d)
            /\ hist[d].rollouts = Budget(d)
            /\ hist[d].skipped = Budget(d)
            /\ hist[d].stepped = {}
            /\ nodes[Root(d)].visits = Budget(d)
            /\ nodes[Root(d)].total_score = Budget(d) * evaluate_state(Live(d))
            /\ nodes[Root(d)].children = <<>>
            /\ begun[Root(d)] = Budget(d)

C5_Witness ==
    /\ Returned(1)
    /\ ended(Live(1))
    /\ Budget(1) = MaxIter
    /\ hist[1].clones = MaxIter
    /\ nodes[Root(1)].visits = MaxIter

\* No card of the hand can be played: ending the turn is the only legal move.
OnlyEndTurnLegal(state) ==
    \A i \in 0..(Len(state.hand) - 1) : ~is_playable(state, i)

\* C6: when end-turn is the only legal action of a non-terminal live snapshot
\* and N >= 1, the root never has more than one child and choose_card returns
\* end-turn with root.visits = N and exactly one root child.
C6_SingleAction ==
    \A d \in Decisions :
        (/\ pc[d] \notin {"idle", "off"}
         /\ OnlyEndTurnLegal(hist[d].live0)
         /\ ~ended(hist[d].live0)
         /\ Budget(d) >= 1) =>
            /\ Len(nodes[Root(d)].children) <= 1
            /\ Returned(d) =>
                  /\ result[d].action = EndAgentTurn
                  /\ nodes[Root(d)].visits = Budget(d)
                  /\ Len(nodes[Root(d)].children) = 1

C6_Witness ==
    /\ Returned(1)
    /\ OnlyEndTurnLegal(Live(1))
    /\ Live(1).hand # <<>>
    /\ ~ended(Live(1))
    /\ Budget(1) = MaxIter
    /\ result[1].action = EndAgentTurn
    /\ Len(nodes[Root(1)].children) = 1

\* C7 as stated: from the skewed two-action root, after N >= 20 iterations
\* every run ends with A visited strictly more often than B and A returned.
C7_Original ==
    \A d \in Decisions :
        (Returned(d) /\ hist[d].live0 = SkewedLive /\ Budget(d) >= 20) =>
            LET a == RootChild(d, key(PlayCard(0)))
                b == RootChild(d, key(EndAgentTurn))
            IN /\ a # None /\ b # None
               /\ nodes[a].visits > nodes[b].visits
               /\ result[d].action = PlayCard(0)

\* C7 amended: from the skewed two-action root, after N >= 20 iterations every
\* run ends with both children visited at least once, their visits adding up
\* to N, every visit of A rewarded 1.0 and every visit of B rewarded 0.0, and
\* the returned action is the child with more visits (the child expanded first
\* on a tie): A is returned exactly in the runs that sampled A at least that
\* often, not in every run.
C7_SkewedOutcome ==
    \A d \in Decisions :
        (Returned(d) /\ hist[d].live0 = SkewedLive /\ Budget(d) >= 20) =>
            LET a == RootChild(d, key(PlayCard(0)))
                b == RootChild(d, key(EndAgentTurn))
            IN /\ a # None /\ b # None
               /\ nodes[a].visits >= 1 /\ nodes[b].visits >= 1
               /\ nodes[a].visits + nodes[b].visits = Budget(d)
               /\ nodes[a].total_score = 10 * nodes[a].visits
               /\ nodes[b].total_score = 0
               /\ result[d].action \in {PlayCard(0), EndAgentTurn}
               /\ result[d].action = PlayCard(0) <=>
                     \/ nodes[a].visits > nodes[b].visits
                     \/ nodes[a].visits = nodes[b].visits /\ a < b

C7_Witness ==
    /\ Returned(1)
    /\ hist[1].live0 = SkewedLive
    /\ Budget(1) >= 20
    /\ nodes[RootChild(1, key(PlayCard(0)))].visits
          > nodes[RootChild(1, key(EndAgentTurn))].visits
    /\ result[1].action = PlayCard(0)

\* C9: choose_card leaves the live battle state as it was: state.step is only
\* ever applied to the decision's copy, the copy is an object other than the
\* live state, one copy is taken per iteration, and the live state keeps the
\* value it had at the call.
C9_LiveUntouched ==
    \A d \in Decisions :
        pc[d] \notin {"idle", "off"} =>
            /\ Live(d) = hist[d].live0
            /\ hist[d].stepped \subseteq {CopyRef(d)}
            /\ state_copy[d] # LiveRef(d)
            /\ hist[d].clones =
                 iter[d] + (IF pc[d] \in {"loop", "done"} THEN 0 ELSE 1)

C9_Witness ==
    /\ Returned(1)
    /\ Budget(1) = MaxIter
    /\ hist[1].clones = MaxIter
    /\ hist[1].stepped = {CopyRef(1)}
    /\ obj[CopyRef(1)] # Live(1)
    /\ Live(1) = hist[1].live0

\* C10: the returned action is legal in the live snapshot; when the root has
\* children the key of its most visited child is the key of a legal action of
\* the live snapshot, so the fallback return is not taken.
C10_ReturnedLegal ==
    \A d \in Decisions :
        Returned(d) =>
            /\ result[d].action \in Range(get_actions(Live(d)))
            /\ result[d].at # "fallback"
            /\ nodes[Root(d)].children # <<>> =>
                  /\ result[d].at = "match"
                  /\ \E a \in Range(get_actions(Live(d))) :
                        key(a) = best_action(nodes, Root(d))

C10_Witness ==
    /\ Returned(1)
    /\ Len(nodes[Root(1)].children) >= 2
    /\ result[1].at = "match"
    /\ result[1].action.type = "PlayCard"

\* The root of the tree a node belongs to.
RECURSIVE TreeRoot(_)
TreeRoot(n) == IF nodes[n].parent = None THEN n ELSE TreeRoot(nodes[n].parent)

OwnRoot(d) == hist[d].own_root

\* C8 as stated: two choose_card invocations in flight at the same time do not
\* interfere: each decision's own tree has received exactly its N iterations
\* when the decision returns, and the returned action is one get_best yields
\* on that tree.
C8_Original ==
    \A d \in Decisions :
        Returned(d) =>
            /\ nodes[OwnRoot(d)].visits = Budget(d)
            /\ result[d] \in get_best(nodes, OwnRoot(d), Live(d))

\* C8 amended: two choose_card invocations in flight at the same time on two
\* different agent objects do not interfere: each decision only ever works on
\* the tree under the root it constructed, that tree has received exactly the
\* iterations the decision has completed (N at the return), the other
\* decision's live state and copy are never stepped, and the returned action
\* is one get_best yields on the decision's own tree.  (The tree is kept in
\* self.root, so two invocations on one agent object do share it.)
C8_DistinctAgents ==
    agentOf[1] # agentOf[2] =>
        \A d \in Decisions :
            pc[d] # "idle" =>
                /\ Root(d) = OwnRoot(d)
                /\ pc[d] # "raised"
                /\ node[d] # None => TreeRoot(node[d]) = OwnRoot(d)
                /\ hist[d].stepped \subseteq {CopyRef(d)}
                /\ pc[d] \in {"loop", "done"} =>
                      nodes[OwnRoot(d)].visits = iter[d]
                /\ Returned(d) =>
                      /\ nodes[OwnRoot(d)].visits = Budget(d)
                      /\ result[d] \in get_best(nodes, OwnRoot(d), Live(d))

\* Both decisions have returned after running interleaved on two agents.
C8_Witness ==
    /\ agentOf[1] # agentOf[2]
    /\ Returned(1) /\ Returned(2)
    /\ Budget(1) = ConcIter
    /\ OwnRoot(1) > OwnRoot(2)
    /\ \E n \in 1..Len(nodes) : \E m \in 1..(n - 1) :
          /\ TreeRoot(n) = OwnRoot(2) /\ TreeRoot(m) = OwnRoot(1)
          /\ nodes[m].parent # None
    /\ nodes[OwnRoot(1)].visits = ConcIter
    /\ nodes[OwnRoot(2)].visits = ConcIter

\* The list a is the action catalog of the snapshot: one play action for each
\* playable hand index, in hand order, none for any other index, then end-turn.
IsActionCatalog(a, state) ==
    /\ Len(a) >= 1
    /\ a[Len(a)] = EndAgentTurn
    /\ \A j \in 1..(Len(a) - 1) :
          /\ a[j].type = "PlayCard"
          /\ a[j].card_index \in 0..(Len(state.hand) - 1)
          /\ \A m \in 1..(j - 1) : a[m].card_index < a[j].card_index
    /\ \A i \in 0..(Len(state.hand) - 1) :
          Cardinality({j \in 1..Len(a) : a[j] = PlayCard(i)})
            = (IF is_playable(state, i) THEN 1 ELSE 0)

\* C11: for every snapshot the program holds, _get_actions returns one play
\* action for each playable hand index and none for any other index, followed
\* by exactly one end-turn action, so the list is never empty; the list a
\* first visit stores in the node is that catalog of the node's state.
C11_ActionCatalog ==
    /\ \A r \in DOMAIN obj : IsActionCatalog(get_actions(obj[r]), obj[r])
    /\ \A d \in Decisions :
          (pc[d] = "selected" /\ ~ended(St(d)) /\ nodes[node[d]].visits = 0) =>
              IsActionCatalog(nodes[node[d]].unexplored_actions, St(d))

\* A first visit has stored the catalog of a hand whose first and last cards
\* are not affordable while the middle one is.
C11_Witness ==
    /\ pc[1] = "selected"
    /\ nodes[node[1]].visits = 0
    /\ Len(St(1).hand) = 3
    /\ ~is_playable(St(1), 0) /\ is_playable(St(1), 1) /\ ~is_playable(St(1), 2)
    /\ nodes[node[1]].unexplored_actions = <<PlayCard(1), EndAgentTurn>>

\* ------------------------------------------ properties of _evaluate_state
Evaluated(d) == pc[d] \in {"evaluated", "evaluated_g3"}

Win(state) == ended(state) /\ get_end_result(state) = 1

Loss(state) == ended(state) /\ get_end_result(state) # 1

\* The player's health ratio and the damage ratio both lie in [0,1].
RatiosInRange(state) ==
    /\ state.player.max_health > 0
    /\ state.player.health \in 0..state.player.max_health
    /\ total_enemy_hp(state) > 0
    /\ damage_dealt(state) \in 0..total_enemy_hp(state)

\* The score of decision d1 is strictly greater than the score of d2.
Exceeds(d1, d2) ==
    score[d1] * Unit(St(d2)) > score[d2] * Unit(St(d1))

\* Both evaluations have returned, on snapshots with ratios in [0,1].
BothEvaluated(d1, d2) ==
    /\ Evaluated(d1) /\ Evaluated(d2)
    /\ RatiosInRange(St(d1)) /\ RatiosInRange(St(d2))

\* C12 as stated: with all weights strictly positive, every terminal win
\* evaluation is strictly greater than every terminal loss evaluation.
C12_Original ==
    \A d1, d2 \in Decisions :
        (BothEvaluated(d1, d2) /\ Win(St(d1)) /\ Loss(St(d2))) =>
            Exceeds(d1, d2)

\* C12 amended: with all weights strictly positive and win_base_reward above
\* loss_damage_weight (as the defaults 0.8 and 0.3 are), every terminal win
\* evaluation is strictly greater than every terminal loss evaluation.
C12_WinBaseAboveLoss ==
    \A d1, d2 \in Decisions :
        (/\ BothEvaluated(d1, d2) /\ Win(St(d1)) /\ Loss(St(d2))
         /\ weights[Self(d1)].win_base_reward
              > weights[Self(d1)].loss_damage_weight) =>
            Exceeds(d1, d2)

\* The lowest win and the highest loss, evaluated with configured weights.
C12_Witness ==
    /\ pc[1] = "evaluated_g3" /\ pc[2] = "evaluated_g3"
    /\ weights[Self(1)].win_base_reward > weights[Self(1)].loss_damage_weight
    /\ weights[Self(1)] # DefaultWeights
    /\ Win(St(1)) /\ St(1).player.health = 1
    /\ Loss(St(2)) /\ damage_dealt(St(2)) = total_enemy_hp(St(2))
    /\ Exceeds(1, 2)

C14_WinAboveOngoing ==
    \A d1, d2 \in Decisions :
        (/\ BothEvaluated(d1, d2) /\ Win(St(d1)) /\ ~ended(St(d2))
         /\ weights[Self(d1)].win_base_reward
              > weights[Self(d1)].ongoing_damage_weight
                  + weights[Self(d1)].ongoing_health_weight) =>
            Exceeds(d1, d2)

\* The lowest win and the highest non-terminal snapshot under weights that
\* meet the condition.
C14_Witness ==
    /\ pc[1] = "evaluated_g3" /\ pc[2] = "evaluated_g3"
    /\ weights[Self(1)].win_base_reward
          > weights[Self(1)].ongoing_damage_weight
              + weights[Self(1)].ongoing_health_weight
    /\ weights[Self(1)].ongoing_health_weight = 3
    /\ Win(St(1)) /\ St(1).player.health = 1
    /\ ~ended(St(2))
    /\ St(2).player.health = St(2).player.max_health
    /\ damage_dealt(St(2)) = total_enemy_hp(St(2)) - 1

\* C15 as stated: evaluating a terminal loss snapshot whose total opponent
\* max health is zero does not fail; the evaluation returns 0.
C15_Original ==
    \A d \in Decisions :
        (/\ pc[d] \in {"evaluated", "evaluated_g3", "raised"}
         /\ Loss(St(d))
         /\ total_enemy_hp(St(d)) = 0) =>
            /\ pc[d] # "raised"
            /\ score[d] = 0

\* C16 as stated: with the default weights the non-terminal score lies in
\* [0,1] for every snapshot, raw health values outside [0, max_health]
\* included.
C16_Original ==
    \A d \in Decisions :
        (/\ pc[d] \in {"evaluated", "evaluated_g3"}
         /\ ~ended(St(d))
         /\ weights[Self(d)] = DefaultWeights) =>
            /\ 0 <= score[d]
            /\ score[d] <= Unit(St(d))

\* The tree under node n as a value: every field of every node but the
\* identity of the objects.
RECURSIVE TreeValue(_)
TreeValue(n) ==
    [action             |-> nodes[n].action,
     visits             |-> nodes[n].visits,
     total_score        |-> nodes[n].total_score,
     unexplored_actions |-> nodes[n].unexplored_actions,
     children           |-> [j \in 1..Len(nodes[n].children) |->
                               [key  |-> nodes[n].children[j].key,
                                node |-> TreeValue(nodes[n].children[j].node)]]]

C18_Original ==
    \A d \in Decisions : Returned(d) => root[Self(d)] = None

\* C18 amended: every call of choose_card starts from a new root object with
\* no parent, no incoming action, zero visits, zero total reward and no
\* children, and leaves the configuration of the agent as it was; but the tree
\* is retained: once choose_card has returned, self.root still holds the root
\* of the tree built for that decision, with its visits, until a later call on
\* the same agent replaces it.
C18_FreshRootKeptTree ==
    [][\A d \in Decisions :
          /\ (pc[d] = "idle" /\ pc'[d] = "loop") =>
                /\ root'[Self(d)] \notin 1..Len(nodes)
                /\ nodes'[root'[Self(d)]] = TreeNode(NoAction, None)
                /\ \A n \in 1..Len(nodes) : nodes'[n] = nodes[n]
          /\ iterations' = iterations /\ weights' = weights
          /\ (/\ pc'[d] = "done"
              /\ \A e \in Decisions \ {d} :
                    agentOf[e] = agentOf[d] => hist'[e].own_root < hist'[d].own_root) =>
                /\ root'[Self(d)] = hist'[d].own_root
                /\ nodes'[root'[Self(d)]].parent = None
                /\ nodes'[root'[Self(d)]].visits >= iter'[d]
      ]_vars

\* The second call on an agent has just begun with a new empty root while the
\* tree of the first call, which has returned, is still in the heap with its
\* visits.
C18_Witness ==
    /\ agentOf[1] = agentOf[2]
    /\ Returned(1)
    /\ pc[2] = "loop" /\ iter[2] = 0
    /\ OwnRoot(1) < OwnRoot(2)
    /\ root[Self(2)] = OwnRoot(2)
    /\ nodes[OwnRoot(2)] = TreeNode(NoAction, None)
    /\ nodes[OwnRoot(1)].visits = ConcIter
    /\ nodes[OwnRoot(1)].children # <<>>

\* C19: in a game in which every sequence of legal actions reaches a terminal
\* snapshot, choose_card terminates: every select descent and every rollout
\* ends, and the decision returns after exactly N calls of step, N being the
\* configured number of iterations.
C19_Terminates ==
    <>(/\ Returned(1)
       /\ iter[1] = Budget(1)
       /\ hist[1].steps = Budget(1)
       /\ hist[1].backprops = Budget(1))

\* The decision has returned after MaxIter iterations with descents through
\* two levels of the tree and rollouts that stepped the copy.
C19_Witness ==
    /\ Returned(1)
    /\ iter[1] = MaxIter
    /\ hist[1].steps = MaxIter
    /\ hist[1].stepped # {}
    /\ \E n \in 1..Len(nodes) :
          /\ nodes[n].parent # None
          /\ nodes[nodes[n].parent].parent # None
          /\ nodes[n].visits >= 1

\* The nodes from n up to the root of its tree, along parent.
RECURSIVE PathToRoot(_)
PathToRoot(n) ==
    IF n = None THEN {} ELSE {n} \cup PathToRoot(nodes[n].parent)

\* The number of edges between n and the root of its tree.
RECURSIVE Depth(_)
Depth(n) == IF nodes[n].parent = None THEN 0 ELSE 1 + Depth(nodes[n].parent)

\* C20: backpropagate(reward) called on a node at depth d adds exactly 1 to
\* visits and reward to total_score at that node and at each of its d
\* ancestors, the root included, changes nothing else in those nodes, changes
\* no node outside that path, and creates none.
C20_BackpropagatePath ==
    [][\A d \in Decisions :
          (pc[d] = "backpropagate" /\ pc'[d] = "loop") =>
              /\ Len(nodes') = Len(nodes)
              /\ Cardinality(PathToRoot(node[d])) = Depth(node[d]) + 1
              /\ TreeRoot(node[d]) \in PathToRoot(node[d])
              /\ \A n \in 1..Len(nodes) :
                    nodes'[n] =
                      IF n \in PathToRoot(node[d])
                      THEN [nodes[n] EXCEPT !.visits = @ + 1,
                                            !.total_score = @ + score[d]]
                      ELSE nodes[n]
      ]_vars

\* A backpropagation of a positive reward from a node two levels below the
\* root has just completed, in a tree with visited nodes outside the path.
C20_Witness ==
    /\ pc[1] = "loop"
    /\ hist[1].backprops >= 1
    /\ node[1] # None
    /\ Depth(node[1]) >= 2
    /\ score[1] > 0
    /\ nodes[node[1]].total_score = score[1]
    /\ \E n \in 1..Len(nodes) :
          n \notin PathToRoot(node[1]) /\ nodes[n].visits >= 1

\* No decision is inside an iteration.
BetweenIterations == \A d \in Decisions : pc[d] \in {"idle", "off", "loop", "done"}

\* The child nodes of node n.
Children(n) == {nodes[n].children[j].node : j \in 1..Len(nodes[n].children)}

\* C21 as stated: in every reachable tree, each existing child of a node that
\* still has a pending action has visits exactly 1.
C21_Original ==
    \A n \in 1..Len(nodes) :
        nodes[n].unexplored_actions # <<>> =>
            \A c \in Children(n) : nodes[c].visits = 1

\* C21 amended: after every complete iteration, each existing child of a node
\* that still has a pending action has visits exactly 1; inside an iteration
\* the only exception is the child the running expand has just created, which
\* has visits 0 until backpropagate reaches it.
C21_TriedOnce ==
    \A n \in 1..Len(nodes) :
        nodes[n].unexplored_actions # <<>> =>
            \A c \in Children(n) :
                \/ nodes[c].visits = 1
                \/ /\ nodes[c].visits = 0
                   /\ ~BetweenIterations
                   /\ \E d \in Decisions :
                         /\ pc[d] \in {"rollout", "backpropagate"}
                         /\ node[d] = c

\* Between two iterations a node has a pending action and two children, each
\* visited once.
C21_Witness ==
    /\ pc[1] = "loop"
    /\ \E n \in 1..Len(nodes) :
          /\ nodes[n].unexplored_actions # <<>>
          /\ Len(nodes[n].children) >= 2
          /\ \A c \in Children(n) : nodes[c].visits = 1

\* The keys of the actions of a list.
ActionKeys(l) == {key(l[j]) : j \in 1..Len(l)}

\* How often x occurs in the list l.
Count(l, x) == Cardinality({j \in 1..Len(l) : l[j] = x})

\* C22: each successful expand removes exactly one action from the pending
\* actions of the node, adds exactly one new child, stored under the key of
\* that action with the node as its parent, and applies the action once to the
\* snapshot; the key was not a child key before, no existing child is
\* overwritten, no other node changes, and in every node the child keys and
\* the keys of the pending actions stay disjoint.
C22_ExpandStep ==
    [][/\ \A d \in Decisions :
            (/\ pc[d] = "selected" /\ pc'[d] = "rollout"
             /\ Len(nodes') # Len(nodes)) =>
                LET self  == node[d]
                    child == Len(nodes) + 1
                    a     == nodes'[child].action
                    ua    == IF nodes[self].unexplored_actions = <<>>
                             THEN get_actions(St(d))
                             ELSE nodes[self].unexplored_actions
                IN /\ Len(nodes') = Len(nodes) + 1
                   /\ a \in Range(ua)
                   /\ Len(nodes'[self].unexplored_actions) = Len(ua) - 1
                   /\ \A x \in Range(ua) :
                         Count(nodes'[self].unexplored_actions, x)
                           = Count(ua, x) - (IF x = a THEN 1 ELSE 0)
                   /\ key(a) \notin Keys(nodes[self].children)
                   /\ nodes'[self].children
                         = Append(nodes[self].children,
                                  [key |-> key(a), node |-> child])
                   /\ nodes'[child] = TreeNode(a, self)
                   /\ node'[d] = child
                   /\ obj' = [obj EXCEPT ![state_copy[d]] = StateStep(@, a)]
                   /\ \A n \in 1..Len(nodes) :
                         n # self =>
                            nodes'[n] = nodes[n]
                   /\ nodes'[self].visits = nodes[self].visits
                   /\ nodes'[self].total_score = nodes[self].total_score
       /\ \A n \in 1..Len(nodes') :
             Keys(nodes'[n].children)
               \cap ActionKeys(nodes'[n].unexplored_actions) = {}
      ]_vars

\* expand has just created the second child of a node below the root, whose
\* last pending action it took, and stepped the copy.
C22_Witness ==
    /\ pc[1] = "rollout"
    /\ nodes[node[1]].visits = 0
    /\ nodes[node[1]].parent # None
    /\ nodes[nodes[node[1]].parent].parent # None
    /\ Len(nodes[nodes[node[1]].parent].children) = 2
    /\ nodes[nodes[node[1]].parent].unexplored_actions = <<>>
    /\ node[1] = Len(nodes)
    /\ hist[1].stepped = {CopyRef(1)}

\* The incoming actions on the path from the root to node n, root first.
RECURSIVE PathActions(_, _)
PathActions(ns, n) ==
    IF ns[n].parent = None THEN <<>>
    ELSE Append(PathActions(ns, ns[n].parent), ns[n].action)

\* The order in which choose_card and step move from phase to phase.
PhaseOrder ==
    {<<"idle", "loop">>, <<"loop", "select">>, <<"select", "selected">>,
     <<"selected", "rollout">>, <<"rollout", "backpropagate">>,
     <<"backpropagate", "loop">>, <<"loop", "done">>}

\* C25: within one iteration the phases run in the order select, expand,
\* rollout, backpropagate, expand being executed exactly when the snapshot is
\* not terminal after select; all of them work on the same copy; when rollout
\* starts, the actions applied so far to the copy are the incoming actions on
\* the tree path from the root to the node rollout is called on, and
\* backpropagate starts from that node.
C25_PhaseOrder ==
    [][\A d \in Decisions :
          /\ pc'[d] # pc[d] => <<pc[d], pc'[d]>> \in PhaseOrder
          /\ pc[d] \in {"select", "selected", "rollout", "backpropagate"} =>
                state_copy'[d] = state_copy[d]
          /\ pc[d] = "select" =>
                hist'[d].applied = PathActions(nodes', node'[d])
          /\ (pc[d] = "selected" /\ pc'[d] = "rollout") =>
                /\ Len(nodes') > Len(nodes) <=> ~ended(St(d))
                /\ Len(nodes') = Len(nodes) => node'[d] = node[d]
                /\ hist'[d].applied = PathActions(nodes', node'[d])
          /\ pc[d] \in {"rollout", "backpropagate"} =>
                /\ node'[d] = node[d]
                /\ hist'[d].applied = hist[d].applied
      ]_vars

\* Rollout is about to start on a node just created two levels below the
\* root, after select applied a play and expand a second action.
C25_Witness ==
    /\ pc[1] = "rollout"
    /\ nodes[node[1]].visits = 0
    /\ Len(hist[1].applied) = 2
    /\ hist[1].applied[1].type = "PlayCard"
    /\ hist[1].applied = PathActions(nodes, node[1])
    /\ iter[1] >= 3

\* The lifecycle state of node n, read from its fields: 0 when no pending
\* action is held and no child exists (Unvisited while visits = 0), 1 Frontier,
\* 2 PartiallyExpanded, 3 FullyExpanded.
Stage(ns, n) ==
    IF ns[n].children = <<>>
    THEN (IF ns[n].unexplored_actions = <<>> THEN 0 ELSE 1)
    ELSE (IF ns[n].unexplored_actions = <<>> THEN 3 ELSE 2)

\* Applying the actions in turn to the state is legal at every step and never
\* meets or produces a terminal state.
RECURSIVE NonTerminalAfter(_, _)
NonTerminalAfter(state, acts) ==
    IF ended(state) THEN FALSE
    ELSE IF acts = <<>> THEN TRUE
    ELSE /\ Legal(state, Head(acts))
         /\ NonTerminalAfter(StateStep(state, Head(acts)), Tail(acts))

\* Node n of the decision's tree is reached with a snapshot that is not
\* terminal.
NodeNonTerminal(d, n) ==
    \E c \in copy_undeterministic(Live(d)) :
        NonTerminalAfter(c, PathActions(nodes, n))

\* C26 as stated (its last clause): at the end of every iteration each visited
\* non-terminal node is Frontier, PartiallyExpanded or FullyExpanded.
C26_Original ==
    BetweenIterations =>
        \A d \in Decisions : \A n \in 1..Len(nodes) :
            (/\ pc[d] \in {"loop", "done"}
             /\ TreeRoot(n) = OwnRoot(d)
             /\ nodes[n].visits >= 1
             /\ NodeNonTerminal(d, n)) =>
                Stage(nodes, n) \in 1..3

\* C26 amended: every node moves through its lifecycle states only forwards;
\* the pending actions are computed only at a node that holds none and has no
\* child, hence once; a non-empty pending list only loses one action at a
\* time; the children only grow, by appending.  But a node created by expand
\* ends its first iteration visited with its pending actions not yet
\* computed (expand computes them at the next visit and takes one at once),
\* so at the end of an iteration a visited node is in that state,
\* PartiallyExpanded or FullyExpanded, never Frontier, and the only node with
\* visits 0 is a root before its first iteration.
C26_Lifecycle ==
    [][/\ \A n \in 1..Len(nodes) :
            /\ Stage(nodes', n) >= Stage(nodes, n)
            /\ SubSeq(nodes'[n].children, 1, Len(nodes[n].children))
                  = nodes[n].children
            /\ nodes[n].unexplored_actions # <<>> =>
                  /\ Len(nodes'[n].unexplored_actions)
                        \in {Len(nodes[n].unexplored_actions),
                             Len(nodes[n].unexplored_actions) - 1}
                  /\ \A x \in Range(nodes'[n].unexplored_actions) :
                        Count(nodes'[n].unexplored_actions, x)
                          <= Count(nodes[n].unexplored_actions, x)
            /\ (/\ nodes[n].unexplored_actions = <<>>
                /\ \/ nodes'[n].unexplored_actions # <<>>
                   \/ Len(nodes'[n].children) > Len(nodes[n].children)) =>
                  nodes[n].children = <<>>
       /\ BetweenIterations' =>
             \A n \in 1..Len(nodes') :
                /\ Stage(nodes', n) # 1
                /\ nodes'[n].visits = 0 =>
                      nodes'[n].parent = None /\ Stage(nodes', n) = 0
      ]_vars

\* At the end of an iteration the tree holds a fully expanded root, a
\* partially expanded node, and a visited node that is reached with a
\* non-terminal snapshot and whose pending actions are not yet computed.
C26_Witness ==
    /\ pc[1] = "loop"
    /\ Stage(nodes, Root(1)) = 3
    /\ \E n \in 1..Len(nodes) : Stage(nodes, n) = 2
    /\ \E n \in 1..Len(nodes) :
          /\ Stage(nodes, n) = 0
          /\ nodes[n].visits >= 1
          /\ NodeNonTerminal(1, n)

\* C27 as stated: in every reachable state a node whose visits is 0 holds no
\* pending action.
C27_Original ==
    \A n \in 1..Len(nodes) :
        nodes[n].visits = 0 => nodes[n].unexplored_actions = <<>>

\* C27 amended: a node whose visits is 0 holds no pending action, except the
\* root inside its first iteration: select computes the root's pending actions
\* while its visits is still 0, and backpropagate counts the visit only at the
\* end of that iteration.  After every complete iteration the statement holds
\* of every node.
C27_UnvisitedUninitialized ==
    \A n \in 1..Len(nodes) :
        (nodes[n].visits = 0 /\ nodes[n].unexplored_actions # <<>>) =>
            /\ nodes[n].parent = None
            /\ Len(nodes[n].children) <= 1
            /\ \E d \in Decisions :
                  /\ pc[d] \in {"selected", "rollout", "backpropagate"}
                  /\ TreeRoot(node[d]) = n

\* Inside the first iteration the root has visits 0 and pending actions
\* computed, while the child expand has just created has visits 0 and none.
C27_Witness ==
    /\ pc[1] = "rollout"
    /\ nodes[Root(1)].visits = 0
    /\ nodes[Root(1)].unexplored_actions # <<>>
    /\ node[1] # Root(1)
    /\ nodes[node[1]].visits = 0
    /\ nodes[node[1]].unexplored_actions = <<>>

\* The pending actions and the children of every node are left as they are.
ShapeUnchanged ==
    /\ Len(nodes') = Len(nodes)
    /\ \A n \in 1..Len(nodes) :
          /\ nodes'[n].children = nodes[n].children
          /\ nodes'[n].unexplored_actions = nodes[n].unexplored_actions

\* C28: a node reached with a terminal snapshot is never expanded.  A step of
\* select that ends on a terminal snapshot changes no node; when the snapshot
\* is terminal after select, step goes to rollout without calling expand: no
\* node is added, the current node and the snapshot stay; rollout on the
\* terminal snapshot leaves it as it is and returns its evaluation; and
\* backpropagate adds exactly that evaluation of the unchanged snapshot to the
\* node, changing no pending list and no child.
C28_TerminalNotExpanded ==
    [][\A d \in Decisions :
          /\ (pc[d] = "select" /\ pc'[d] = "selected" /\ ended(St(d))) =>
                /\ nodes' = nodes
                /\ node'[d] = node[d]
          /\ (pc[d] = "selected" /\ ended(St(d))) =>
                /\ pc'[d] = "rollout"
                /\ nodes' = nodes
                /\ node'[d] = node[d]
                /\ obj'[state_copy[d]] = St(d)
                /\ hist'[d].skipped = hist[d].skipped + 1
          /\ (pc[d] = "rollout" /\ ended(St(d))) =>
                /\ pc'[d] = "backpropagate"
                /\ nodes' = nodes
                /\ node'[d] = node[d]
                /\ obj'[state_copy[d]] = St(d)
                /\ score'[d] = evaluate_state(St(d))
          /\ pc[d] = "backpropagate" =>
                /\ ShapeUnchanged
                /\ obj'[state_copy[d]] = St(d)
                /\ ended(St(d)) =>
                      /\ score[d] = evaluate_state(St(d))
                      /\ nodes'[node[d]].total_score
                            = nodes[node[d]].total_score + evaluate_state(St(d))
                      /\ nodes'[node[d]].visits = nodes[node[d]].visits + 1
      ]_vars

\* An iteration has reached a node below the root a second time, with a
\* terminal snapshot, and has ended without giving it a child.
C28_Witness ==
    /\ pc[1] = "loop"
    /\ hist[1].skipped >= 1
    /\ nodes[node[1]].parent # None
    /\ nodes[node[1]].visits >= 2
    /\ nodes[node[1]].children = <<>>
    /\ nodes[node[1]].unexplored_actions = <<>>
    /\ ended(St(1))

\* C29: whenever child selection runs (select moves from a node to one of its
\* children), the selecting node has visits >= 1 and every one of its
\* children has visits >= 1, so the averages and the UCB1 terms are taken
\* with positive visit counts, the draw is the weighted one over all the
\* children, and the node holds no pending action.
C29_SelectVisited ==
    [][\A d \in Decisions :
          (pc[d] = "select" /\ hist'[d].applied # hist[d].applied) =>
             /\ nodes[node[d]].visits >= 1
             /\ Children(node[d]) # {}
             /\ \A c \in Children(node[d]) : nodes[c].visits >= 1
             /\ select_child_action(nodes, node[d])
                   = {nodes[c].action : c \in Children(node[d])}
             /\ node'[d] \in Children(node[d])
      ]_vars

\* Child selection has just run at a root with several children and has moved
\* to one of them.
C29_Witness ==
    /\ pc[1] = "select"
    /\ Len(hist[1].applied) = 1
    /\ nodes[node[1]].parent = Root(1)
    /\ Cardinality(Children(Root(1))) >= 2
    /\ \A c \in Children(Root(1)) : nodes[c].visits >= 1

\* C30: the configurable variant constructed with its default parameters and
\* the fixed-weight variant, run side by side on the same initial snapshot
\* with every random choice resolved by the same source, hold the same tree
\* after each iteration (the same children keys, visits, total_score and
\* pending actions at every node), have consumed the same draws, and return
\* the same action.
C30_VariantsEquivalent ==
    \A d1, d2 \in Decisions :
        (/\ agentClass[Self(d1)] = "ggpa"
         /\ agentClass[Self(d2)] = "g3"
         /\ weights[Self(d2)] = DefaultWeights) =>
            /\ (/\ pc[d1] \in {"loop", "done"}
                /\ pc[d2] \in {"loop", "done"}
                /\ iter[d1] = iter[d2]) =>
                   /\ TreeValue(Root(d1)) = TreeValue(Root(d2))
                   /\ pc[d1] = pc[d2] => rng[d1] = rng[d2]
            /\ (Returned(d1) /\ Returned(d2)) => result[d1] = result[d2]
            /\ pc[d1] # "raised" /\ pc[d2] # "raised"

\* Both variants have run DetIter seeded iterations, hold a tree with two root
\* children, a grandchild and a non-zero total reward, and have returned the
\* action of the most visited child.
C30_Witness ==
    /\ agentClass[Self(1)] = "ggpa" /\ agentClass[Self(2)] = "g3"
    /\ Returned(1) /\ Returned(2)
    /\ Budget(1) = DetIter /\ Budget(2) = DetIter
    /\ nodes[Root(2)].weights = DefaultWeights
    /\ nodes[Root(2)].total_score > 0
    /\ Len(nodes[Root(2)].children) >= 2
    /\ \E n \in 1..Len(nodes) :
          /\ TreeRoot(n) = Root(2)
          /\ nodes[n].parent # None /\ nodes[nodes[n].parent].parent # None
    /\ result[2].at = "match"
    /\ result[1] = result[2]

====
